---- MODULE Spec2Model ----
(***************************************************************************)
(* Model of backend/app/services/execution_engine.py:                      *)
(*   PlaywrightExecutionEngine (start, stop, execute_test and its retry    *)
(*   loop, artifact capture) and ExecutionEngineManager (execute_test,     *)
(*   cleanup);                                                             *)
(* of execute_test_background in backend/app/api/test_generation.py, the   *)
(*   background task that calls the manager and records the status;        *)
(* and of retry_with_backoff in backend/app/services/backend_client.py.    *)
(*                                                                         *)
(* The code is asyncio code: a coroutine runs without interruption from    *)
(* one await to the next.  Every action below is therefore the code that   *)
(* runs between two consecutive suspension points of one coroutine, and    *)
(* the pc of a run names the await at which it is suspended.               *)
(*                                                                         *)
(* What is taken from the platform:                                        *)
(*  - Python >= 3.8 (setup.py): asyncio.CancelledError derives from        *)
(*    BaseException, so no `except Exception` of the module catches it;    *)
(*  - str(uuid.uuid4()) never repeats: a generated id is the name of the   *)
(*    call that generated it;                                              *)
(*  - every Playwright call (start, launch, new_context, new_page, goto,   *)
(*    evaluate, screenshot, close, stop) either completes or raises, and   *)
(*    the model takes both outcomes at every such await;                   *)
(*  - the manager's dict holds so few keys that it is never resized, so    *)
(*    the slots of its entries keep their positions while it is iterated.  *)
(*                                                                         *)
(* The specifications share the actions: Spec (one call at a time, any     *)
(* mode, id and config, cancellable), ManagerSpec (two overlapping calls   *)
(* of the manager), ShutdownSpec (two overlapping calls and cleanup),      *)
(* BackgroundSpec (one background task) and BackoffSpec (one call of a     *)
(* function wrapped by retry_with_backoff).                                *)
(***************************************************************************)
EXTENDS Integers, Sequences, FiniteSets, TLC

\* ------------------------------------------------------------------ bounds
MaxRetry == 3

MaxBackoff == 3

\* ------------------------------------------------------------ input domains
\* The calls of execute_test that are in flight.  A PlaywrightExecutionEngine
\* is created by at most one call, so an engine object is named after the
\* call that constructed it.
Runs == {"r1", "r2"}

\* caller-supplied test ids; NoId is an omitted (falsy) test_id
Ids == {"a", "b"}
NoId == "None"
None == "None"

SupportedBrowsers == {"chromium", "firefox", "webkit"}
Browsers == {"chromium", "edge"}

RetryCounts == 0..MaxRetry

\* str(e) of the exceptions a script can raise inside page.evaluate
ScriptErrors == {"Error: boom", "TimeoutError: 30000ms exceeded"}
ResetError == "Error: goto about:blank failed"
TempDirTypeError == "unsupported operand type(s) for /: 'NoneType' and 'str'"
NoPageAttributeError == "'NoneType' object has no attribute 'goto'"

\* max_retries of retry_with_backoff; -1 makes range(max_retries + 1) empty
MaxRetriesArgs == -1..MaxBackoff

\* base_delay and max_delay of retry_with_backoff, in tenths of a second:
\* the defaults, and a cap that the second retry reaches
DelayArgs == {[base_delay |-> 5, max_delay |-> 100],
              [base_delay |-> 5, max_delay |-> 10]}

\* an exception that a wrapped function raises: its class and, for
\* httpx.HTTPStatusError, e.response.status_code
Exc(type, status) == [type |-> type, status |-> status]
NoExc == Exc(None, 0)

\* the exception classes the wrapper catches, a few status codes around the
\* 500 it compares with, and exceptions it does not catch
NetworkErrors == {"TimeoutException", "ConnectError", "ReadError"}
StatusCodes == {404, 499, 500, 503}
FuncErrors ==
    {Exc(t, 0) : t \in NetworkErrors \cup {"ValueError", "CancelledError"}}
        \cup {Exc("HTTPStatusError", c) : c \in StatusCodes}

ExecutionConfig ==
    [browser : Browsers, retry_count : RetryCounts,
     screenshot_on_failure : BOOLEAN, capture_logs : BOOLEAN]

\* ------------------------------------------------------------------- state
VARIABLES
    runs,      \* per call of execute_test: position, locals, result, history
    sessions,  \* the PlaywrightExecutionEngine objects (fields of self)
    engines,   \* ExecutionEngineManager.engines: the dict, in insertion order
    cleaner,   \* the ExecutionEngineManager.cleanup coroutine
    wrapper    \* a call of a function wrapped by retry_with_backoff

vars == <<runs, sessions, engines, cleaner, wrapper>>

\* ExecutionResult(success=False, test_id=test_id, execution_time=0.0)
ExecutionResult(test_id) ==
    [success |-> FALSE, test_id |-> test_id, error_message |-> None,
     screenshot_path |-> None, console_logs |-> None, timeWrites |-> 0]

\* PlaywrightExecutionEngine.__init__
NewEngine(config) ==
    [config |-> config, playwright |-> FALSE, browser |-> FALSE,
     context |-> FALSE, page |-> FALSE, temp_dir |-> FALSE,
     startCalls |-> 0, startsOk |-> 0, stopCalls |-> 0]

NoConfig == [browser |-> "chromium", retry_count |-> 0,
             screenshot_on_failure |-> FALSE, capture_logs |-> FALSE]

IdleRun ==
    [pc |-> "idle", mode |-> "none", id_arg |-> NoId, test_id |-> NoId,
     config |-> NoConfig,
     engine |-> None, attempt |-> 0, result |-> ExecutionResult(NoId),
     attempts |-> 0, evalCalls |-> 0, resetCalls |-> 0, shotCalls |-> 0,
     logCalls |-> 0, sleeps |-> 0, resetFails |-> 0, excs |-> << >>,
     succAt |-> 0,
     shotAttempt |-> 0, logsAttempt |-> 0,
     exit |-> "none", exits |-> 0, stopping |-> None, after |-> "none",
     pending |-> "none", outcome |-> "none", startFailed |-> FALSE,
     cancelled |-> FALSE, status |-> << >>, status_msg |-> None]

\* the cleanup coroutine before it is called; pos, used and len are the
\* state of the iterator over self.engines.values()
IdleCleaner ==
    [pc |-> "idle", pos |-> 1, used |-> 0, len |-> 0, stopping |-> None,
     atCall |-> {}, outcome |-> "none"]

\* the wrapper of retry_with_backoff before it is called
IdleWrapper ==
    [pc |-> "idle", max_retries |-> 0, base_delay |-> 0, max_delay |-> 0,
     attempt |-> 0, last_exception |-> NoExc, calls |-> 0, errs |-> << >>,
     sleeps |-> << >>, outcome |-> "none", value |-> 0, raised |-> NoExc]

Init ==
    /\ runs = [r \in Runs |-> IdleRun]
    /\ sessions = [r \in Runs |-> NewEngine(NoConfig)]
    /\ engines = << >>
    /\ cleaner = IdleCleaner
    /\ wrapper = IdleWrapper

\* --------------------------------------------------- the manager's dict
\* self.engines is a Python dict: entries are kept in insertion order and a
\* deleted entry leaves a dead slot behind (live = FALSE).
LiveIdxAnyKey(d, key) == {i \in 1..Len(d) : d[i].live}
LiveIdx(d, key) == {i \in 1..Len(d) : d[i].live /\ d[i].key = key}
Contains(d, key) == LiveIdx(d, key) # {}
Lookup(d, key) == d[CHOOSE i \in LiveIdx(d, key) : TRUE].value
Insert(d, key, value) == Append(d, [key |-> key, value |-> value, live |-> TRUE])
Delete(d, key) == [i \in 1..Len(d) |-> IF i \in LiveIdx(d, key)
                                        THEN [d[i] EXCEPT !.live = FALSE]
                                        ELSE d[i]]
Used(d) == Cardinality({i \in 1..Len(d) : d[i].live})
\* `self.engines.clear()`
ClearNothing(d) == d
Clear(d) == << >>

\* ------------------------------------------------------------ world record
\* The helpers below are the synchronous stretches of code between awaits;
\* they take and return the part of the state a run can touch.
World == [runs |-> runs, sessions |-> sessions, engines |-> engines]
Commit(w) ==
    /\ runs' = w.runs
    /\ sessions' = w.sessions
    /\ engines' = w.engines

Upd(w, r, rr) == [w EXCEPT !.runs[r] = rr]

\* ------------------------------------------------- leaving execute_test
\* the ways ExecutionEngineManager.execute_test is called: directly, or by
\* the background task of the API (api/test_generation.py)
Managed == {"manager", "background"}

\* execute_test_background: `"status": "passed" if result.success else "failed"`
TerminalStatusAlwaysPassed(res) == "passed"
TerminalStatus(res) == IF res.success THEN "passed" ELSE "failed"

\* execute_test_background after the manager's call: the update of the
\* record with the result, or, in `except Exception as e`, with status
\* "error" and str(e); a CancelledError passes through both
Background(rr) ==
    CASE rr.pending = "returned" ->
            [rr EXCEPT !.status = Append(@, TerminalStatus(rr.result))]
      [] rr.pending = "CancelledError" -> rr
      [] OTHER ->
            [rr EXCEPT !.status = Append(@, "error"), !.status_msg = rr.pending]

\* the call hands control back to its caller: the exception in flight, if
\* any, decides how
Done(w, r) ==
    LET rr == [w.runs[r] EXCEPT !.pc = "done", !.outcome = w.runs[r].pending,
                                !.stopping = None, !.after = "none"]
    IN Upd(w, r, IF rr.mode = "background" THEN Background(rr) ELSE rr)

\* `del self.engines[test_id]`: a KeyError if the key is gone; raised inside
\* the finally block it replaces the result or the exception in flight
DelEntry(w, r) ==
    LET id == w.runs[r].test_id IN
    IF Contains(w.engines, id)
    THEN Done([w EXCEPT !.engines = Delete(w.engines, id)], r)
    ELSE Done(Upd(w, r, [w.runs[r] EXCEPT !.pending = "KeyError"]), r)

\* stop(): the closes are tried in the order page, context, browser,
\* playwright, each only if the handle is set; k is the first one to look at
CloseFrom(s, k) ==
    IF k <= 1 /\ s.page THEN "stop_page"
    ELSE IF k <= 2 /\ s.context THEN "stop_context"
    ELSE IF k <= 3 /\ s.browser THEN "stop_browser"
    ELSE IF k <= 4 /\ s.playwright THEN "stop_driver"
    ELSE "return"

StopRank(pc) ==
    CASE pc = "stop_page" -> 1
      [] pc = "stop_context" -> 2
      [] pc = "stop_browser" -> 3
      [] pc = "stop_driver" -> 4

RECURSIVE StopCall(_, _, _, _)

\* the finally block of ExecutionEngineManager.execute_test
Finally(w, r) ==
    LET id == w.runs[r].test_id IN
    IF Contains(w.engines, id)
    THEN StopCall(w, r, Lookup(w.engines, id), "del")
    ELSE Done(w, r)

\* what follows the return of stop(), by the place it was called from
AfterStop(w, r, after) ==
    CASE after = "raise" ->
            \* start(): `raise` after `await self.stop()`
            LET w1 == Upd(w, r, [w.runs[r] EXCEPT !.pending = "StartError",
                                                  !.startFailed = TRUE])
            IN IF w.runs[r].mode \in Managed THEN Finally(w1, r) ELSE Done(w1, r)
      [] after = "del" -> DelEntry(w, r)
      [] after = "exit" -> Done(w, r)

\* `await <engine e>.stop()` called by run r; runs up to the first close
StopCall(w, r, e, after) ==
    LET w1 == [w EXCEPT !.sessions[e].stopCalls = @ + 1]
        st == CloseFrom(w1.sessions[e], 1)
    IN IF st = "return"
       THEN AfterStop(w1, r, after)
       ELSE Upd(w1, r, [w1.runs[r] EXCEPT !.pc = st, !.stopping = e,
                                           !.after = after])

\* ------------------------------------------------------- the retry loop
\* `for attempt in range(self.config.retry_count)`
InRangeOffByOne(attempt, retry_count) == attempt <= retry_count
InRangeShort(attempt, retry_count) == attempt < retry_count - 1
InRange(attempt, retry_count) == attempt < retry_count

\* `if attempt > 0:` before _reset_page_state
NeedsResetAlways(attempt) == attempt >= 0
NeedsReset(attempt) == attempt > 0

\* `if attempt < self.config.retry_count - 1:` before asyncio.sleep
SleepsBeforeRetryAlways(attempt, retry_count) == attempt < retry_count
SleepsBeforeRetry(attempt, retry_count) == attempt < retry_count - 1

\* `result.success = True`
RecordSuccess(res) == [res EXCEPT !.success = TRUE]

\* `result.error_message = str(e)`
RecordErrorKeepFirst(res, msg) ==
    IF res.error_message = None THEN [res EXCEPT !.error_message = msg] ELSE res
RecordError(res, msg) == [res EXCEPT !.error_message = msg]

Cfg(w, r) == w.sessions[w.runs[r].engine].config
Eng(w, r) == w.sessions[w.runs[r].engine]

\* `result.execution_time = time.time() - start_time`
RecordTimeNever(res) == res
RecordTime(res) == [res EXCEPT !.timeWrites = @ + 1]

\* the loop is left: `result.execution_time = ...`, `return result`; then the
\* manager's finally block, or the body and __aexit__ of `async with`
LoopExit(w, r, kind) ==
    LET rr == w.runs[r]
        w1 == Upd(w, r, [rr EXCEPT !.exit = kind, !.exits = @ + 1,
                                   !.result = RecordTime(@),
                                   !.pending = "returned"])
    IN IF rr.mode \in Managed THEN Finally(w1, r)
       ELSE StopCall(w1, r, rr.engine, "exit")

RECURSIVE IterStart(_, _, _)

\* the end of one iteration of the for loop that did not break
NextIter(w, r) ==
    LET rr == w.runs[r] IN
    IF InRange(rr.attempt + 1, Cfg(w, r).retry_count)
    THEN IterStart(w, r, rr.attempt + 1)
    ELSE LoopExit(w, r, "exhausted")

\* `break` after a successful attempt
AfterSuccessNoBreak(w, r) == NextIter(w, r)
AfterSuccess(w, r) == LoopExit(w, r, "break")

\* `if attempt < retry_count - 1: await asyncio.sleep(...)`
SleepStartNoWait(w, r) == NextIter(w, r)
SleepStart(w, r) ==
    LET rr == w.runs[r] IN
    IF SleepsBeforeRetry(rr.attempt, Cfg(w, r).retry_count)
    THEN Upd(w, r, [rr EXCEPT !.pc = "sleep", !.sleeps = @ + 1])
    ELSE NextIter(w, r)

\* `if self.config.capture_logs: await self._capture_logs(result)`;
\* _capture_logs does nothing when self.page is unset
LogsStart(w, r) ==
    LET rr == w.runs[r] IN
    IF Cfg(w, r).capture_logs
    THEN IF Eng(w, r).page
         THEN Upd(w, r, [rr EXCEPT !.pc = "logs", !.logCalls = @ + 1])
         ELSE SleepStart(Upd(w, r, [rr EXCEPT !.logCalls = @ + 1]), r)
    ELSE SleepStart(w, r)

\* `if self.config.screenshot_on_failure: await self._capture_screenshot(result)`;
\* _capture_screenshot does nothing when self.page is unset, and swallows the
\* TypeError of `self._temp_dir / ...` when _temp_dir is unset
ShotStartUngated(w, r) ==
    LET rr == w.runs[r] IN
    IF Eng(w, r).page /\ Eng(w, r).temp_dir
    THEN Upd(w, r, [rr EXCEPT !.pc = "shot", !.shotCalls = @ + 1])
    ELSE LogsStart(Upd(w, r, [rr EXCEPT !.shotCalls = @ + 1]), r)
ShotStart(w, r) ==
    LET rr == w.runs[r] IN
    IF Cfg(w, r).screenshot_on_failure
    THEN IF Eng(w, r).page /\ Eng(w, r).temp_dir
         THEN Upd(w, r, [rr EXCEPT !.pc = "shot", !.shotCalls = @ + 1])
         ELSE LogsStart(Upd(w, r, [rr EXCEPT !.shotCalls = @ + 1]), r)
    ELSE LogsStart(w, r)

\* `except Exception as e: logger.error(...)` of _capture_screenshot and of
\* _capture_logs: the failure is logged and nothing else happens
CaptureFailedMasks(w, r) ==
    Upd(w, r, [w.runs[r] EXCEPT !.result.error_message = "capture failed"])
CaptureFailed(w, r) == w

\* `except Exception as e:` of the loop body
Fail(w, r, msg) ==
    LET rr == w.runs[r] IN
    ShotStart(Upd(w, r, [rr EXCEPT !.result = RecordError(@, msg),
                                   !.excs = Append(@, msg)]), r)

\* `await self._execute_test_code(test_code, result)` up to its first await
EvalStart(w, r) ==
    LET rr == [w.runs[r] EXCEPT !.evalCalls = @ + 1]
        w1 == Upd(w, r, rr)
    IN IF ~Eng(w, r).temp_dir THEN Fail(w1, r, TempDirTypeError)
       ELSE IF ~Eng(w, r).page THEN Fail(w1, r, NoPageAttributeError)
       ELSE Upd(w, r, [rr EXCEPT !.pc = "eval"])

\* _reset_page_state returns: no statement of it touches the result
ResetReturnClearsError(w, r) ==
    EvalStart(Upd(w, r, [w.runs[r] EXCEPT !.result.error_message = None]), r)
ResetReturn(w, r) == EvalStart(w, r)

\* the top of iteration `attempt` of the for loop, up to its first await;
\* _reset_page_state does nothing when self.page is unset
IterStart(w, r, attempt) ==
    LET rr == [w.runs[r] EXCEPT !.attempt = attempt, !.attempts = @ + 1]
        w1 == Upd(w, r, rr)
    IN IF NeedsReset(attempt)
       THEN IF Eng(w, r).page
            THEN Upd(w, r, [rr EXCEPT !.pc = "reset", !.resetCalls = @ + 1])
            ELSE ResetReturn(Upd(w, r, [rr EXCEPT !.resetCalls = @ + 1]), r)
       ELSE EvalStart(w1, r)

\* entry of the for loop
BeginLoop(w, r) ==
    IF InRange(0, Cfg(w, r).retry_count)
    THEN IterStart(w, r, 0)
    ELSE LoopExit(w, r, "exhausted")

\* `await self.start()` up to its first await (async_playwright().start())
StartCall(w, r) ==
    LET e == w.runs[r].engine IN
    Upd([w EXCEPT !.sessions[e].startCalls = @ + 1], r,
        [w.runs[r] EXCEPT !.pc = "start_driver"])

\* `except Exception` of start(): `await self.stop()` and then `raise`
StartFailContinue(w, r) == BeginLoop(w, r)
StartFail(w, r) == StopCall(w, r, w.runs[r].engine, "raise")

\* `if not test_id: test_id = str(uuid.uuid4())`: a generated id is the
\* name of the call that generated it
TestIdNotFresh(id, r) == IF id = NoId THEN "uuid" ELSE id
TestId(id, r) == IF id = NoId THEN r ELSE id

\* ----------------------------------------------------------------- actions
StartPcs == {"start_driver", "start_launch", "start_context", "start_page"}
LoopPcs == {"reset", "eval", "shot", "logs", "sleep"}
StopPcs == {"stop_page", "stop_context", "stop_browser", "stop_driver"}

\* ExecutionEngineManager.execute_test(test_code, config, test_id), or
\* `async with PlaywrightExecutionEngine(config) as engine:
\*      await engine.execute_test(test_code, test_id)`,
\* from the call up to the first await; execute_test_background first
\* updates the record with status "running"
Call(r, modes, ids, configs) ==
    /\ runs[r].pc = "idle"
    /\ \E mode \in modes, id \in ids, config \in configs :
         LET test_id == TestId(id, r)
             hit == mode \in Managed /\ Contains(engines, test_id)
             e == IF hit THEN Lookup(engines, test_id) ELSE r
             rr == [runs[r] EXCEPT !.mode = mode, !.id_arg = id,
                                   !.status = IF mode = "background"
                                              THEN <<"running">> ELSE @,
                                   !.test_id = test_id,
                                   !.config = config, !.engine = e,
                                   !.result = ExecutionResult(test_id)]
             w0 == Upd(World, r, rr)
             w1 == IF hit THEN w0
                   ELSE [w0 EXCEPT !.sessions[r] = NewEngine(config),
                                   !.engines = IF mode \in Managed
                                               THEN Insert(@, test_id, r)
                                               ELSE @]
         IN Commit(IF mode = "with" \/ ~w1.sessions[e].playwright
                   THEN StartCall(w1, r)
                   ELSE BeginLoop(w1, r))
    /\ UNCHANGED <<cleaner, wrapper>>

\* start(): the await that run r is suspended at completes or raises
StartStep(r) ==
    /\ runs[r].pc \in StartPcs
    /\ \E ok \in BOOLEAN :
         LET rr == runs[r]
             e == rr.engine
             w == World
         IN Commit(
              IF ~ok THEN StartFail(w, r)
              ELSE CASE rr.pc = "start_driver" ->
                          LET w1 == [w EXCEPT !.sessions[e].playwright = TRUE] IN
                          IF sessions[e].config.browser \in SupportedBrowsers
                          THEN Upd(w1, r, [rr EXCEPT !.pc = "start_launch"])
                          ELSE StartFail(w1, r)     \* ValueError
                     [] rr.pc = "start_launch" ->
                          Upd([w EXCEPT !.sessions[e].browser = TRUE], r,
                              [rr EXCEPT !.pc = "start_context"])
                     [] rr.pc = "start_context" ->
                          Upd([w EXCEPT !.sessions[e].context = TRUE], r,
                              [rr EXCEPT !.pc = "start_page"])
                     [] rr.pc = "start_page" ->
                          BeginLoop([w EXCEPT !.sessions[e].page = TRUE,
                                              !.sessions[e].temp_dir = TRUE,
                                              !.sessions[e].startsOk = @ + 1], r))
    /\ UNCHANGED <<cleaner, wrapper>>

\* _reset_page_state raises: the call is inside the try block of the loop
\* body, so the exception is handled as the failure of the attempt
ResetRaisedPropagates(w, r) ==
    LET rr == [w.runs[r] EXCEPT !.resetFails = @ + 1, !.pending = ResetError]
    IN IF rr.mode \in Managed THEN Finally(Upd(w, r, rr), r)
       ELSE StopCall(Upd(w, r, rr), r, rr.engine, "exit")
ResetRaised(w, r) ==
    Fail(Upd(w, r, [w.runs[r] EXCEPT !.resetFails = @ + 1]), r, ResetError)

\* _reset_page_state: goto, clear_cookies, console.clear complete or raise
ResetDone(r) ==
    /\ runs[r].pc = "reset"
    /\ \E ok \in BOOLEAN :
         Commit(IF ok THEN ResetReturn(World, r) ELSE ResetRaised(World, r))
    /\ UNCHANGED <<cleaner, wrapper>>

\* _run_playwright_test: page.goto and page.evaluate complete or raise
EvalDone(r, errors) ==
    /\ runs[r].pc = "eval"
    /\ \/ /\ Eng(World, r).page
          /\ Commit(AfterSuccess(
                 Upd(World, r, [runs[r] EXCEPT !.result = RecordSuccess(@),
                                               !.succAt = runs[r].attempt + 1]), r))
       \/ \E msg \in errors : Commit(Fail(World, r, msg))
    /\ UNCHANGED <<cleaner, wrapper>>

\* _capture_screenshot: page.screenshot completes or raises (logged)
ShotDone(r) ==
    /\ runs[r].pc = "shot"
    /\ \E ok \in BOOLEAN :
         Commit(LogsStart(
            IF ok THEN Upd(World, r, [runs[r] EXCEPT
                              !.result.screenshot_path = runs[r].engine,
                              !.shotAttempt = runs[r].attempt + 1])
            ELSE CaptureFailed(World, r), r))
    /\ UNCHANGED <<cleaner, wrapper>>

\* _capture_logs: page.evaluate completes or raises (logged)
LogsDone(r) ==
    /\ runs[r].pc = "logs"
    /\ \E ok \in BOOLEAN :
         Commit(SleepStart(
            IF ok THEN Upd(World, r, [runs[r] EXCEPT
                              !.result.console_logs = runs[r].engine,
                              !.logsAttempt = runs[r].attempt + 1])
            ELSE CaptureFailed(World, r), r))
    /\ UNCHANGED <<cleaner, wrapper>>

\* asyncio.sleep(retry_delay / 1000) returns
SleepDone(r) ==
    /\ runs[r].pc = "sleep"
    /\ Commit(NextIter(World, r))
    /\ UNCHANGED <<cleaner, wrapper>>

\* the close of stop() that run r is suspended at completes or raises; an
\* exception ends stop() at once (one try block around all closes)
CloseHandleResetsConfig(s, pc) ==
    CASE pc = "stop_page" -> [s EXCEPT !.page = FALSE, !.config = NoConfig]
      [] pc = "stop_context" -> [s EXCEPT !.context = FALSE, !.config = NoConfig]
      [] pc = "stop_browser" -> [s EXCEPT !.browser = FALSE, !.config = NoConfig]
      [] pc = "stop_driver" -> [s EXCEPT !.playwright = FALSE, !.config = NoConfig]
CloseHandle(s, pc) ==
    CASE pc = "stop_page" -> [s EXCEPT !.page = FALSE]
      [] pc = "stop_context" -> [s EXCEPT !.context = FALSE]
      [] pc = "stop_browser" -> [s EXCEPT !.browser = FALSE]
      [] pc = "stop_driver" -> [s EXCEPT !.playwright = FALSE]

StopStep(r) ==
    /\ runs[r].pc \in StopPcs
    /\ \E ok \in BOOLEAN :
         LET rr == runs[r]
             e == rr.stopping
             w1 == [World EXCEPT !.sessions[e] = CloseHandle(@, rr.pc)]
             st == CloseFrom(w1.sessions[e], StopRank(rr.pc) + 1)
         IN Commit(IF ~ok THEN AfterStop(World, r, rr.after)
                   ELSE IF st = "return" THEN AfterStop(w1, r, rr.after)
                   ELSE Upd(w1, r, [rr EXCEPT !.pc = st]))
    /\ UNCHANGED <<cleaner, wrapper>>

\* the task of run r is cancelled: CancelledError is raised at the await it
\* is suspended at; no `except Exception` catches it
Cancel(r) ==
    /\ runs[r].pc \in StartPcs \cup LoopPcs \cup StopPcs
    /\ ~runs[r].cancelled
    /\ LET rr == [runs[r] EXCEPT !.cancelled = TRUE, !.pending = "CancelledError"]
           w == Upd(World, r, rr)
       IN Commit(
            IF rr.pc \in StartPcs \/ (rr.pc \in StopPcs /\ rr.after = "raise")
            THEN IF rr.mode \in Managed THEN Finally(w, r) ELSE Done(w, r)
            ELSE IF rr.pc \in LoopPcs
            THEN IF rr.mode \in Managed THEN Finally(w, r)
                 ELSE StopCall(w, r, rr.engine, "exit")
            ELSE Done(w, r))
    /\ UNCHANGED <<cleaner, wrapper>>

\* -------------------------------------------------------------- cleanup
RECURSIVE CleanupIter(_)

\* `for engine in self.engines.values(): await engine.stop()`, from the
\* fetch of the next value up to the first close that has to be awaited,
\* and `self.engines.clear()` once the iterator is exhausted.  The iterator
\* raises RuntimeError when the dict changed size since it was created, or
\* when it finds an entry after it has handed out as many as there were.
CleanupIter(x) ==
    LET c == x.cleaner
        d == x.engines
        live == {i \in c.pos..Len(d) : d[i].live}
    IN IF Used(d) # c.used
       THEN [x EXCEPT !.cleaner.pc = "done", !.cleaner.stopping = None,
                      !.cleaner.outcome = "RuntimeError"]
       ELSE IF live = {}
       THEN [x EXCEPT !.engines = Clear(d), !.cleaner.pc = "done",
                      !.cleaner.stopping = None,
                      !.cleaner.outcome = "returned"]
       ELSE IF c.len = 0
       THEN [x EXCEPT !.cleaner.pc = "done", !.cleaner.stopping = None,
                      !.cleaner.outcome = "RuntimeError"]
       ELSE LET i == CHOOSE j \in live : \A k \in live : j <= k
                e == d[i].value
                x1 == [x EXCEPT !.cleaner.pos = i + 1, !.cleaner.len = @ - 1,
                                !.cleaner.stopping = e,
                                !.sessions[e].stopCalls = @ + 1]
                st == CloseFrom(x1.sessions[e], 1)
            IN IF st = "return" THEN CleanupIter(x1)
               ELSE [x1 EXCEPT !.cleaner.pc = st]

CommitCleanup(x) ==
    /\ sessions' = x.sessions
    /\ engines' = x.engines
    /\ cleaner' = x.cleaner
    /\ UNCHANGED <<runs, wrapper>>

\* ExecutionEngineManager.cleanup() is called
CleanupCall ==
    /\ cleaner.pc = "idle"
    /\ CommitCleanup(CleanupIter(
          [sessions |-> sessions, engines |-> engines,
           cleaner |-> [cleaner EXCEPT
                          !.used = Used(engines), !.len = Used(engines),
                          !.atCall = {engines[i].value : i \in
                                        {j \in 1..Len(engines) : engines[j].live}}]]))

\* the close of stop() that cleanup is suspended at completes or raises
CleanupStopStep ==
    /\ cleaner.pc \in StopPcs
    /\ \E ok \in BOOLEAN :
         LET e == cleaner.stopping
             x == [sessions |-> sessions, engines |-> engines, cleaner |-> cleaner]
             x1 == [x EXCEPT !.sessions[e] = CloseHandle(@, cleaner.pc)]
             st == CloseFrom(x1.sessions[e], StopRank(cleaner.pc) + 1)
         IN CommitCleanup(IF ~ok THEN CleanupIter(x)
                          ELSE IF st = "return" THEN CleanupIter(x1)
                          ELSE [x1 EXCEPT !.cleaner.pc = st])

\* ---------------------------------------------------- retry_with_backoff
\* `for attempt in range(max_retries + 1)`
BackoffInRange(attempt, max_retries) == attempt < max_retries + 1

\* the except clauses of the wrapper that go on to retry: the three network
\* error classes, and HTTPStatusError `if e.response.status_code >= 500`
RetryableFrom400(e) ==
    \/ e.type \in NetworkErrors
    \/ e.type = "HTTPStatusError" /\ e.status >= 400
Retryable(e) ==
    \/ e.type \in NetworkErrors
    \/ e.type = "HTTPStatusError" /\ e.status >= 500

\* `if attempt == max_retries: ... raise`
LastAttemptEarly(attempt, max_retries) == attempt >= max_retries - 1
LastAttempt(attempt, max_retries) == attempt = max_retries

RECURSIVE Pow2(_)
Pow2(n) == IF n = 0 THEN 1 ELSE 2 * Pow2(n - 1)
Min(a, b) == IF a <= b THEN a ELSE b

\* `delay = min(base_delay * (2 ** attempt), max_delay)`
Delay(wr) == Min(wr.base_delay * Pow2(wr.attempt), wr.max_delay)

\* an exception leaves the wrapper
Raise(wr, e) == [wr EXCEPT !.pc = "done", !.outcome = "raised", !.raised = e]

\* `return await func(*args, **kwargs)` when the call returns
FuncReturnedStale(wr) ==
    [wr EXCEPT !.pc = "done", !.outcome = "returned", !.value = 1]
FuncReturned(wr) ==
    [wr EXCEPT !.pc = "done", !.outcome = "returned", !.value = wr.calls]

\* the top of one iteration of the wrapper's loop, up to `await func(...)`;
\* `raise last_exception` after the loop raises TypeError when it is None
BackoffIter(wr, attempt) ==
    IF BackoffInRange(attempt, wr.max_retries)
    THEN [wr EXCEPT !.pc = "func", !.attempt = attempt, !.calls = @ + 1]
    ELSE IF wr.last_exception = NoExc
    THEN Raise(wr, Exc("TypeError", 0))
    ELSE Raise(wr, wr.last_exception)

\* the except clauses of the wrapper
FuncRaised(wr, e) ==
    LET w1 == [wr EXCEPT !.errs = Append(@, e)] IN
    IF Retryable(e)
    THEN LET w2 == [w1 EXCEPT !.last_exception = e] IN
         IF LastAttempt(wr.attempt, wr.max_retries)
         THEN Raise(w2, e)
         ELSE [w2 EXCEPT !.pc = "sleep", !.sleeps = Append(@, Delay(wr))]
    ELSE Raise(w1, e)

\* a function decorated with retry_with_backoff(max_retries, base_delay,
\* max_delay) is called
WrapperCall ==
    /\ wrapper.pc = "idle"
    /\ \E m \in MaxRetriesArgs, d \in DelayArgs :
         wrapper' = BackoffIter([wrapper EXCEPT !.max_retries = m,
                                                !.base_delay = d.base_delay,
                                                !.max_delay = d.max_delay], 0)
    /\ UNCHANGED <<runs, sessions, engines, cleaner>>

\* the wrapped function returns or raises
FuncDone ==
    /\ wrapper.pc = "func"
    /\ \/ wrapper' = FuncReturned(wrapper)
       \/ \E e \in FuncErrors : wrapper' = FuncRaised(wrapper, e)
    /\ UNCHANGED <<runs, sessions, engines, cleaner>>

\* asyncio.sleep(delay) returns, or the task is cancelled while it sleeps
BackoffSleepDone ==
    /\ wrapper.pc = "sleep"
    /\ \/ wrapper' = BackoffIter(wrapper, wrapper.attempt + 1)
       \/ wrapper' = Raise(wrapper, Exc("CancelledError", 0))
    /\ UNCHANGED <<runs, sessions, engines, cleaner>>

BackoffNext == WrapperCall \/ FuncDone \/ BackoffSleepDone

BackoffSpec == Init /\ [][BackoffNext]_vars

\* one call at a time, every mode, id and config
Solo == {"r1"}

Next ==
    \E r \in Solo :
        \/ Call(r, {"manager", "with"}, Ids \cup {NoId}, ExecutionConfig)
        \/ StartStep(r)
        \/ ResetDone(r)
        \/ EvalDone(r, ScriptErrors)
        \/ ShotDone(r)
        \/ LogsDone(r)
        \/ SleepDone(r)
        \/ StopStep(r)
        \/ Cancel(r)

Spec == Init /\ [][Next]_vars

\* one background task of the API: the test id is the id of the execution
\* record, the config is built from the fields of the request
BackgroundNext ==
    \E r \in Solo :
        \/ Call(r, {"background"}, {"a"}, ExecutionConfig)
        \/ StartStep(r)
        \/ ResetDone(r)
        \/ EvalDone(r, ScriptErrors)
        \/ ShotDone(r)
        \/ LogsDone(r)
        \/ SleepDone(r)
        \/ StopStep(r)
        \/ Cancel(r)

BackgroundSpec == Init /\ [][BackgroundNext]_vars

\* overlapping calls of ExecutionEngineManager.execute_test on one manager
ManagerIds == {"a", NoId}
ManagerConfigs ==
    {[browser |-> "chromium", retry_count |-> 1,
      screenshot_on_failure |-> TRUE, capture_logs |-> TRUE],
     [browser |-> "chromium", retry_count |-> 2,
      screenshot_on_failure |-> FALSE, capture_logs |-> FALSE]}

ManagerNext ==
    \E r \in Runs :
        \/ Call(r, {"manager"}, ManagerIds, ManagerConfigs)
        \/ StartStep(r)
        \/ ResetDone(r)
        \/ EvalDone(r, {"Error: boom"})
        \/ ShotDone(r)
        \/ LogsDone(r)
        \/ SleepDone(r)
        \/ StopStep(r)

ManagerSpec == Init /\ [][ManagerNext]_vars

\* overlapping calls and a call of cleanup() at any moment; the calls make
\* one attempt and capture nothing
ShutdownConfigs ==
    {[browser |-> "chromium", retry_count |-> 1,
      screenshot_on_failure |-> FALSE, capture_logs |-> FALSE]}

ShutdownNext ==
    \/ \E r \in Runs :
          \/ Call(r, {"manager"}, ManagerIds, ShutdownConfigs)
          \/ StartStep(r)
          \/ EvalDone(r, {"Error: boom"})
          \/ StopStep(r)
    \/ CleanupCall
    \/ CleanupStopStep

ShutdownSpec == Init /\ [][ShutdownNext]_vars

\* =================================================================== claims
\* engine.execute_test of run r has left its retry loop and returned a result
Returned(r) == runs[r].exit # "none"
RetryCount(r) == sessions[runs[r].engine].config.retry_count
Called(r) == runs[r].pc # "idle"

\* C1: in a run of execute_test with retry_count = n >= 1 at most n attempts
\* are made (and the script is evaluated at most n times), and the loop is
\* left at most once, in exactly one of two ways: by the break of a successful
\* attempt, with success = true, or by exhausting all n attempts, with
\* success = false.
C1_AttemptsBoundedOneTerminal ==
    \A r \in Runs :
        (Called(r) /\ RetryCount(r) >= 1) =>
            /\ runs[r].attempts <= RetryCount(r)
            /\ runs[r].evalCalls <= runs[r].attempts
            /\ runs[r].exits <= 1
            /\ Returned(r) =>
                 /\ runs[r].exits = 1
                 /\ runs[r].exit \in {"break", "exhausted"}
                 /\ runs[r].exit = "break" <=> runs[r].result.success
                 /\ runs[r].exit = "exhausted" => runs[r].attempts = RetryCount(r)
            /\ ~Returned(r) => ~runs[r].result.success

C1_Witness ==
    \E r \in Runs :
        /\ Called(r)
        /\ RetryCount(r) = 2
        /\ runs[r].exit = "exhausted"
        /\ runs[r].attempts = 2
        /\ runs[r].evalCalls = 2

\* C2: a result returned with success = true has no error message, also when
\* the successful attempt came after failed ones.
C2_SuccessHasNoErrorMessage ==
    \A r \in Runs :
        (Returned(r) /\ runs[r].result.success) =>
            runs[r].result.error_message = None

\* C3: when a call of the manager's execute_test has handed control back, by
\* return, by an error or by cancellation, the dict holds no entry for its
\* test id and stop() has been called on the engine the call used.
C3_ReturnLeavesNoEntry ==
    [][\A r \in Runs :
          (runs[r].pc # "done" /\ runs'[r].pc = "done" /\ runs'[r].mode = "manager") =>
              /\ ~Contains(engines', runs'[r].test_id)
              /\ sessions'[runs'[r].engine].stopCalls >= 1]_vars

\* C4: once every call that uses an engine has handed control back, stop()
\* has been called exactly once on each engine whose start() succeeded.
Users(e) == {r \in Runs : Called(r) /\ runs[r].engine = e}
C4_StopExactlyOncePerStartedSession ==
    \A e \in Runs :
        (/\ sessions[e].startsOk >= 1
         /\ \A r \in Users(e) : runs[r].pc = "done") =>
            sessions[e].stopCalls = 1

\* C5: a call of the manager's execute_test that is not cancelled never
\* raises: it always hands back an ExecutionResult, with success = false when
\* start-up or the validation of the browser kind failed.
C5_ManagerNeverRaises ==
    \A r \in Runs :
        (runs[r].pc = "done" /\ runs[r].mode = "manager" /\ ~runs[r].cancelled) =>
            runs[r].outcome = "returned"

\* C6: a result returned with success = false has an error message.
C6_FailureHasErrorMessage ==
    \A r \in Runs :
        (Returned(r) /\ ~runs[r].result.success) =>
            runs[r].result.error_message # None

\* C7: when all attempts of a run with retry_count = n >= 1 fail, the result
\* has success = false and an error message, exactly n attempts were made,
\* and the script was evaluated in each of them except those whose reset
\* raised.
C7_AllFailExactlyN ==
    \A r \in Runs :
        (Called(r) /\ RetryCount(r) >= 1 /\ Returned(r) /\ runs[r].succAt = 0) =>
            /\ ~runs[r].result.success
            /\ runs[r].attempts = RetryCount(r)
            /\ runs[r].evalCalls = RetryCount(r) - runs[r].resetFails
            /\ Len(runs[r].excs) = RetryCount(r)
            /\ runs[r].result.error_message # None

C7_Witness ==
    \E r \in Runs :
        /\ Called(r)
        /\ RetryCount(r) = 3
        /\ Returned(r)
        /\ runs[r].succAt = 0
        /\ runs[r].evalCalls = 3
        /\ \A i \in 1..3 : runs[r].excs[i] \in ScriptErrors

\* C8: when attempt k is the first to succeed, exactly k attempts are made:
\* the loop is left at once, no attempt follows although retries may remain,
\* and the result has success = true.
C8_NoAttemptAfterSuccess ==
    \A r \in Runs :
        runs[r].succAt # 0 =>
            /\ runs[r].succAt \in 1..RetryCount(r)
            /\ runs[r].attempts = runs[r].succAt
            /\ Len(runs[r].excs) = runs[r].succAt - 1
            /\ runs[r].exit = "break"
            /\ runs[r].result.success

C8_Witness ==
    \E r \in Runs :
        /\ Called(r)
        /\ RetryCount(r) = 3
        /\ runs[r].succAt = 2
        /\ runs[r].pc = "done"
        /\ runs[r].outcome = "returned"

\* C9: when the first attempt succeeds, the script was evaluated once and
\* neither a reset nor a screenshot nor a sleep took place in the run.
C9_FirstAttemptSuccessIsClean ==
    \A r \in Runs :
        runs[r].succAt = 1 =>
            /\ runs[r].evalCalls = 1
            /\ runs[r].resetCalls = 0
            /\ runs[r].shotCalls = 0
            /\ runs[r].logCalls = 0
            /\ runs[r].sleeps = 0

C9_Witness ==
    \E r \in Runs :
        /\ Called(r)
        /\ runs[r].succAt = 1
        /\ RetryCount(r) >= 2
        /\ sessions[runs[r].engine].config.screenshot_on_failure
        /\ runs[r].pc = "done"

\* C10: when all attempts fail, the error message of the result is the
\* message of the exception of the last attempt.
C10_LastErrorSurvives ==
    \A r \in Runs :
        (Returned(r) /\ runs[r].succAt = 0 /\ runs[r].attempts >= 1) =>
            /\ runs[r].excs # << >>
            /\ runs[r].result.error_message = runs[r].excs[Len(runs[r].excs)]

C10_Witness ==
    \E r \in Runs :
        /\ Called(r)
        /\ Returned(r)
        /\ runs[r].succAt = 0
        /\ Len(runs[r].excs) = 2
        /\ runs[r].excs[1] # runs[r].excs[2]

\* the config of the engine that run r executes on
RunCfg(r) == sessions[runs[r].engine].config

\* C11: when all attempts of a run fail and screenshot_on_failure is set, the
\* screenshot path of the returned result, if there is one, was recorded by
\* the capture of the last attempt and not by the capture of an earlier one.
C11_ScreenshotIsOfLastAttempt ==
    \A r \in Runs :
        (/\ Called(r)
         /\ Returned(r)
         /\ runs[r].succAt = 0
         /\ RunCfg(r).screenshot_on_failure
         /\ runs[r].result.screenshot_path # None) =>
            runs[r].shotAttempt = runs[r].attempts

\* C12: a result returned with success = false by a run whose config has
\* screenshot_on_failure set has a screenshot path.
C12_FailureHasScreenshotPath ==
    \A r \in Runs :
        (/\ Called(r)
         /\ Returned(r)
         /\ ~runs[r].result.success
         /\ RunCfg(r).screenshot_on_failure) =>
            runs[r].result.screenshot_path # None

\* C13: a run whose start() has not succeeded makes no attempt: start() was
\* called once, the script was never evaluated, no reset and no sleep took
\* place, no result is returned, and once start() has failed the call ends
\* with the exception.
C13_StartFailureIsFatal ==
    \A r \in Runs :
        Called(r) =>
            /\ sessions[runs[r].engine].startsOk = 0 =>
                  /\ sessions[runs[r].engine].startCalls = 1
                  /\ runs[r].attempts = 0
                  /\ runs[r].evalCalls = 0
                  /\ runs[r].resetCalls = 0
                  /\ runs[r].sleeps = 0
                  /\ runs[r].exit = "none"
            /\ runs[r].startFailed =>
                  /\ sessions[runs[r].engine].startsOk = 0
                  /\ runs[r].pc \in StopPcs \cup {"done"}
                  /\ runs[r].pc = "done" =>
                        runs[r].outcome \in {"StartError", "CancelledError"}

C13_Witness ==
    \E r \in Runs :
        /\ Called(r)
        /\ RunCfg(r).browser = "edge"
        /\ RunCfg(r).retry_count = 3
        /\ runs[r].startFailed
        /\ runs[r].pc = "done"
        /\ runs[r].outcome = "StartError"
        /\ sessions[runs[r].engine].startCalls = 1
        /\ runs[r].attempts = 0

\* the entry of the dict under a key, None when there is none
Entry(d, key) == IF Contains(d, key) THEN Lookup(d, key) ELSE None

\* C14: two calls of the manager with distinct ids run on two distinct
\* engines, each on the one it created; the screenshot path and the console
\* logs of a result come from the run's own engine; and no step of one run
\* changes the other run, the other run's engine or the other run's entry in
\* the dict, so that each run proceeds as it would alone.
C14_DistinctIdsAreIsolated ==
    /\ [](\A r, s \in Runs :
             (r # s /\ Called(r) /\ Called(s)
                    /\ runs[r].test_id # runs[s].test_id) =>
                 /\ runs[r].engine = r
                 /\ runs[r].engine # runs[s].engine
                 /\ runs[r].result.screenshot_path \in {None, runs[r].engine}
                 /\ runs[r].result.console_logs \in {None, runs[r].engine})
    /\ [][\A r, s \in Runs :
             (r # s /\ runs'[r] # runs[r] /\ Called(s)
                    /\ runs'[r].test_id # runs[s].test_id) =>
                 /\ runs'[s] = runs[s]
                 /\ sessions'[runs[s].engine] = sessions[runs[s].engine]
                 /\ Entry(engines', runs[s].test_id)
                       = Entry(engines, runs[s].test_id)]_vars

C14_Witness ==
    /\ runs["r1"].pc = "logs"
    /\ runs["r2"].pc = "logs"
    /\ runs["r1"].test_id # runs["r2"].test_id
    /\ runs["r1"].result.screenshot_path = "r1"
    /\ runs["r2"].result.screenshot_path = "r2"

\* C15: when the manager is called with an id that has an entry in the dict,
\* each run executes with the config it was called with, and no step of one
\* run changes the engine of another run that is inside its retry loop.
C15_SameIdRunsAreNotCorrupted ==
    /\ [](\A r \in Runs : Called(r) => RunCfg(r) = runs[r].config)
    /\ [][\A r, s \in Runs :
             (r # s /\ runs'[r] # runs[r] /\ runs[s].pc \in LoopPcs) =>
                 sessions'[runs[s].engine] = sessions[runs[s].engine]]_vars

\* C16: when cleanup() returns, the dict is empty and stop() has been called
\* on every engine that was in the dict when cleanup() was called.
C16_CleanupStopsAllAndClears ==
    [][(cleaner.pc # "done" /\ cleaner'.pc = "done"
            /\ cleaner'.outcome = "returned") =>
          /\ Used(engines') = 0
          /\ \A e \in cleaner'.atCall : sessions'[e].stopCalls >= 1]_vars

\* cleanup() found two started engines whose runs were still evaluating, and
\* returned before either run went on
C16_Witness ==
    /\ cleaner.pc = "done"
    /\ cleaner.outcome = "returned"
    /\ cleaner.atCall = {"r1", "r2"}
    /\ Used(engines) = 0
    /\ \A r \in Runs : /\ runs[r].pc = "eval"
                       /\ sessions[r].startsOk = 1
                       /\ sessions[r].stopCalls = 1

\* C17: stop() performs a close only in the first call on an engine: a
\* second call of stop(), and a call on an engine that start() did not bring
\* up, finds no handle set and returns without awaiting anything.
C17_StopIsIdempotent ==
    \A r \in Runs :
        (runs[r].pc \in StopPcs /\ ~runs[r].cancelled) =>
            sessions[runs[r].stopping].stopCalls = 1

\* C18: a close of stop() that raises does not end stop(): when the close of
\* the page or of the context completes or raises, stop() goes on to the
\* next handle that is set, in the order page, context, browser, driver.
C18_StopToleratesPartialFailure ==
    [][\A r \in Runs :
          (/\ runs[r].pc \in {"stop_page", "stop_context"}
           /\ runs'[r] # runs[r]
           /\ runs'[r].cancelled = runs[r].cancelled) =>
              runs'[r].pc = CloseFrom(sessions[runs[r].stopping],
                                      StopRank(runs[r].pc) + 1)]_vars

\* C19: once the stop() called by a run has returned, the engine holds no
\* handle: page, context, browser and playwright are all unset.
C19_NoHandleAfterStop ==
    \A r \in Runs :
        (/\ runs[r].pc = "done"
         /\ ~runs[r].cancelled
         /\ sessions[runs[r].engine].stopCalls >= 1) =>
            /\ ~sessions[runs[r].engine].page
            /\ ~sessions[runs[r].engine].context
            /\ ~sessions[runs[r].engine].browser
            /\ ~sessions[runs[r].engine].playwright

\* C20: once stop() has returned on an engine that start() brought up, the
\* temp directory that start() made is gone.
C20_StopRemovesTempDir ==
    \A r \in Runs :
        (/\ runs[r].pc = "done"
         /\ ~runs[r].cancelled
         /\ sessions[runs[r].engine].startsOk >= 1
         /\ sessions[runs[r].engine].stopCalls >= 1) =>
            ~sessions[runs[r].engine].temp_dir

\* C21: a capture that raises while the failure of an attempt is handled
\* changes neither the error message, which stays the message of that
\* attempt's exception, nor success, and the loop goes on as after a capture
\* that succeeded: the log capture follows the screenshot, the sleep follows
\* if an attempt remains, and otherwise the loop is left as exhausted.
C21_CaptureFailureChangesNothing ==
    [][\A r \in Runs :
          (/\ runs[r].pc \in {"shot", "logs"}
           /\ runs'[r] # runs[r]
           /\ runs'[r].cancelled = runs[r].cancelled) =>
              /\ runs'[r].result.error_message = runs[r].result.error_message
              /\ runs[r].result.error_message = runs[r].excs[Len(runs[r].excs)]
              /\ runs'[r].result.success = runs[r].result.success
              /\ ~runs[r].result.success
              /\ runs'[r].excs = runs[r].excs
              /\ runs'[r].attempts = runs[r].attempts
              /\ IF runs[r].pc = "shot" /\ RunCfg(r).capture_logs
                        /\ sessions[runs[r].engine].page
                 THEN runs'[r].pc = "logs"
                 ELSE IF runs[r].attempt < RunCfg(r).retry_count - 1
                 THEN runs'[r].pc = "sleep" /\ runs'[r].sleeps = runs[r].sleeps + 1
                 ELSE runs'[r].exit = "exhausted"]_vars

\* both captures raised in both attempts of a run that ran to its end
C21_Witness ==
    \E r \in Runs :
        /\ Called(r)
        /\ RunCfg(r).retry_count = 2
        /\ sessions[runs[r].engine].startsOk = 1
        /\ runs[r].shotCalls = 2
        /\ runs[r].shotAttempt = 0
        /\ runs[r].logCalls = 2
        /\ runs[r].logsAttempt = 0
        /\ runs[r].sleeps = 1
        /\ runs[r].exit = "exhausted"
        /\ runs[r].result.error_message \in ScriptErrors

\* C22: a run that returns a result made at least one attempt and at most
\* retry_count attempts, whatever retry_count the config carries.
C22_ResultSpansAnAttempt ==
    \A r \in Runs :
        (Called(r) /\ Returned(r)) =>
            /\ runs[r].attempts >= 1
            /\ runs[r].attempts <= RetryCount(r)

\* C23: execution_time is not written while the run is starting or inside
\* its retry loop, and it has been written exactly once when the loop has
\* been left and the result is returned.
C23_ExecutionTimeWrittenOnce ==
    \A r \in Runs :
        /\ Returned(r) => runs[r].result.timeWrites = 1
        /\ ~Returned(r) => runs[r].result.timeWrites = 0
        /\ runs[r].pc \in StartPcs \cup LoopPcs => ~Returned(r)

C23_Witness ==
    \E r \in Runs :
        /\ Called(r)
        /\ runs[r].exit = "exhausted"
        /\ runs[r].attempts = 3
        /\ runs[r].shotAttempt = 3
        /\ runs[r].logsAttempt = 3
        /\ runs[r].pc = "done"
        /\ runs[r].outcome = "returned"
        /\ runs[r].result.timeWrites = 1

\* C24: the config a run was called with is the config of its engine, and no
\* step of the run, from start to stop, changes a field of either.
C24_ConfigIsNeverMutated ==
    /\ [](\A r \in Runs : Called(r) => RunCfg(r) = runs[r].config)
    /\ [][\A r \in Runs :
             Called(r) =>
                 /\ runs'[r].config = runs[r].config
                 /\ sessions'[runs[r].engine].config
                       = sessions[runs[r].engine].config]_vars

\* a run with reset, captures and sleeps that was stopped handle by handle
C24_Witness ==
    \E r \in Runs :
        /\ Called(r)
        /\ runs[r].pc = "done"
        /\ runs[r].config = [browser |-> "chromium", retry_count |-> 2,
                              screenshot_on_failure |-> TRUE,
                              capture_logs |-> TRUE]
        /\ RunCfg(r) = runs[r].config
        /\ runs[r].resetCalls = 1
        /\ runs[r].shotAttempt = 2
        /\ runs[r].sleeps = 1
        /\ sessions[runs[r].engine].stopCalls = 1
        /\ ~sessions[runs[r].engine].playwright

\* C25: the result of a call with an id carries that id; a call without an
\* id runs under a generated id that is not in the dict when it is
\* generated, so that a call without an id has its own entry and its own
\* engine, shared with no other call.
C25_IdsAreKeptOrFresh ==
    /\ [](\A r \in Runs :
             Called(r) =>
                 /\ runs[r].result.test_id = runs[r].test_id
                 /\ runs[r].id_arg # NoId => runs[r].test_id = runs[r].id_arg
                 /\ runs[r].id_arg = NoId =>
                       /\ runs[r].engine = r
                       /\ \A s \in Runs \ {r} :
                             Called(s) =>
                                 /\ runs[s].test_id # runs[r].test_id
                                 /\ runs[s].engine # runs[r].engine)
    /\ [][\A r \in Runs :
             (~Called(r) /\ runs'[r].pc # "idle" /\ runs'[r].id_arg = NoId) =>
                 ~Contains(engines, runs'[r].test_id)]_vars

\* two calls without an id are evaluating at the same time
C25_Witness ==
    /\ \A r \in Runs : /\ runs[r].pc = "eval"
                       /\ runs[r].id_arg = NoId
                       /\ Contains(engines, runs[r].test_id)
    /\ Lookup(engines, runs["r1"].test_id) # Lookup(engines, runs["r2"].test_id)

AllRetryable(wr) ==
    /\ Len(wr.errs) = wr.calls
    /\ \A i \in 1..Len(wr.errs) : Retryable(wr.errs[i])
Cancelled(wr) == wr.raised.type = "CancelledError"

\* C27: a function wrapped with max_retries = m >= 0 is called at most m + 1
\* times; when every call raised a timeout, connect or read error or a status
\* error of 500 or more, and the wrapper was not cancelled in a sleep, the
\* function was called exactly m + 1 times and the wrapper raises the error
\* of the last call.
C27_AtMostMPlusOneCalls ==
    wrapper.max_retries >= 0 =>
        /\ wrapper.calls <= wrapper.max_retries + 1
        /\ (wrapper.pc = "done" /\ AllRetryable(wrapper) /\ ~Cancelled(wrapper)) =>
              /\ wrapper.calls = wrapper.max_retries + 1
              /\ wrapper.outcome = "raised"
              /\ wrapper.raised = wrapper.errs[wrapper.calls]
              /\ Len(wrapper.sleeps) = wrapper.max_retries

C27_Witness ==
    /\ wrapper.pc = "done"
    /\ wrapper.max_retries = 2
    /\ wrapper.calls = 3
    /\ wrapper.errs = <<Exc("TimeoutException", 0),
                         Exc("HTTPStatusError", 500),
                         Exc("HTTPStatusError", 503)>>
    /\ wrapper.raised = Exc("HTTPStatusError", 503)

\* C28: a status error below 500 is not retried: the wrapper raises it at
\* once, without a sleep and without another call, so that a function whose
\* first call raises it has been called exactly once.
C28_ClientErrorsAreNotRetried ==
    LET n == Len(wrapper.errs) IN
    (/\ n >= 1
     /\ wrapper.errs[n].type = "HTTPStatusError"
     /\ wrapper.errs[n].status < 500) =>
        /\ wrapper.pc = "done"
        /\ wrapper.outcome = "raised"
        /\ wrapper.raised = wrapper.errs[n]
        /\ wrapper.calls = n
        /\ Len(wrapper.sleeps) = n - 1

C28_Witness ==
    /\ wrapper.pc = "done"
    /\ wrapper.max_retries = 3
    /\ wrapper.errs = <<Exc("HTTPStatusError", 499)>>
    /\ wrapper.calls = 1
    /\ wrapper.sleeps = << >>

\* C29: when the wrapper returns, it returns the value of the last call, the
\* j <= m calls before it each raised an error that is retried and was
\* followed by one sleep, j + 1 calls were made in all, and nothing is called
\* after the wrapper has returned.
C29_ReturnsFirstSuccess ==
    /\ [](wrapper.outcome = "returned" =>
             /\ wrapper.pc = "done"
             /\ wrapper.value = wrapper.calls
             /\ wrapper.calls = Len(wrapper.errs) + 1
             /\ Len(wrapper.sleeps) = Len(wrapper.errs)
             /\ Len(wrapper.errs) <= wrapper.max_retries
             /\ \A i \in 1..Len(wrapper.errs) : Retryable(wrapper.errs[i]))
    /\ [][wrapper.pc = "done" => wrapper' = wrapper]_vars

C29_Witness ==
    /\ wrapper.outcome = "returned"
    /\ wrapper.max_retries = 3
    /\ Len(wrapper.errs) = 2
    /\ wrapper.value = 3
    /\ wrapper.sleeps = <<5, 10>>

Failed(r) == Len(runs[r].excs)

\* C31: a run sleeps after failed attempt k exactly when k < retry_count.
\* While the failure of an attempt is handled the sleeps are one behind the
\* failures; at every other point of a run that was not cancelled there are
\* as many sleeps as failures, but for a run that exhausted its attempts,
\* which has one sleep less than failures: no sleep follows the last allowed
\* attempt.  A sleep starts only as the last step of the handling of a
\* failure that leaves an attempt to make, and a step that records a success
\* starts none.
C31_SleepIffAttemptRemains ==
    /\ [](\A r \in Runs :
             (Called(r) /\ ~runs[r].cancelled /\ ~runs[r].startFailed) =>
                 /\ runs[r].pc \in {"shot", "logs"} =>
                       runs[r].sleeps = Failed(r) - 1
                 /\ runs[r].pc = "sleep" =>
                       /\ runs[r].sleeps = Failed(r)
                       /\ Failed(r) < RetryCount(r)
                 /\ runs[r].pc \in {"reset", "eval"} => runs[r].sleeps = Failed(r)
                 /\ runs[r].exit = "break" => runs[r].sleeps = Failed(r)
                 /\ (runs[r].exit = "exhausted" /\ Failed(r) >= 1) =>
                       /\ Failed(r) = RetryCount(r)
                       /\ runs[r].sleeps = Failed(r) - 1
                 /\ Failed(r) = 0 => runs[r].sleeps = 0)
    /\ [][\A r \in Runs :
             /\ runs'[r].sleeps # runs[r].sleeps =>
                   /\ runs[r].pc \in {"reset", "eval", "shot", "logs"}
                   /\ runs'[r].pc = "sleep"
                   /\ runs'[r].sleeps = runs[r].sleeps + 1
                   /\ Failed(r)' < RetryCount(r)
                   /\ ~runs'[r].result.success
             /\ (runs'[r].pc = "sleep" /\ runs[r].pc # "sleep") =>
                   runs'[r].sleeps = runs[r].sleeps + 1
             /\ (runs[r].pc = "sleep" /\ runs'[r] # runs[r]
                     /\ runs'[r].cancelled = runs[r].cancelled) =>
                   /\ runs'[r].attempts = runs[r].attempts + 1
                   /\ runs'[r].pc \in {"reset", "eval"}]_vars

\* two failures, two sleeps, and the third attempt succeeded
C31_Witness ==
    \E r \in Runs :
        /\ Called(r)
        /\ RetryCount(r) = 3
        /\ runs[r].succAt = 3
        /\ Failed(r) = 2
        /\ runs[r].sleeps = 2
        /\ runs[r].pc = "done"

\* C32: _reset_page_state is called once at the top of every attempt but
\* the first, so that a run of n attempts has made n - 1 calls of it, and
\* none before the first attempt; the evaluation of an attempt k > 1 starts
\* only in the step in which the reset of that attempt returns, and no
\* reset is called in an attempt after its evaluation has started.
C32_ResetBeforeEveryRetry ==
    /\ [](\A r \in Runs :
             Called(r) =>
                 /\ runs[r].resetCalls =
                        IF runs[r].attempts = 0 THEN 0 ELSE runs[r].attempts - 1
                 /\ runs[r].resetFails <= runs[r].resetCalls
                 /\ runs[r].evalCalls + runs[r].resetFails <= runs[r].attempts
                 /\ runs[r].pc = "reset" =>
                       /\ runs[r].attempts >= 2
                       /\ runs[r].evalCalls + runs[r].resetFails
                             = runs[r].attempts - 1
                 /\ runs[r].pc = "eval" =>
                       runs[r].evalCalls + runs[r].resetFails = runs[r].attempts)
    /\ [][\A r \in Runs :
             /\ runs'[r].resetCalls # runs[r].resetCalls =>
                   /\ runs'[r].resetCalls = runs[r].resetCalls + 1
                   /\ runs'[r].attempts = runs[r].attempts + 1
                   /\ runs'[r].attempts >= 2
                   /\ runs'[r].evalCalls = runs[r].evalCalls
                   /\ runs'[r].pc = "reset"
             /\ runs'[r].evalCalls # runs[r].evalCalls =>
                   /\ runs'[r].evalCalls = runs[r].evalCalls + 1
                   /\ runs'[r].pc = "eval"
                   /\ IF runs'[r].attempts = 1
                      THEN runs'[r].resetCalls = 0
                      ELSE /\ runs[r].pc = "reset"
                           /\ runs'[r].attempts = runs[r].attempts
                           /\ runs'[r].resetCalls = runs[r].resetCalls]_vars

\* the third attempt is evaluating after the second reset
C32_Witness ==
    \E r \in Runs :
        /\ Called(r)
        /\ runs[r].pc = "eval"
        /\ runs[r].attempts = 3
        /\ runs[r].resetCalls = 2
        /\ runs[r].resetFails = 0
        /\ runs[r].evalCalls = 3

\* C33: the attempts of a run follow one another: attempt k + 1 starts only
\* in the step in which the sleep after attempt k returns, when the error of
\* attempt k has been recorded and the captures the config asks for have
\* been called for it; while a failure is handled or slept on, no attempt
\* has been started beyond the failed one, and while an attempt resets or
\* evaluates, every attempt before it has failed and been handled.
C33_AttemptsAreSequential ==
    /\ [](\A r \in Runs :
             Called(r) =>
                 /\ runs[r].pc \in {"shot", "logs", "sleep"} =>
                       /\ Failed(r) = runs[r].attempts
                       /\ runs[r].result.error_message
                             = runs[r].excs[Failed(r)]
                 /\ runs[r].pc \in {"reset", "eval"} =>
                       /\ Failed(r) = runs[r].attempts - 1
                       /\ runs[r].sleeps = runs[r].attempts - 1
                       /\ runs[r].attempt = runs[r].attempts - 1)
    /\ [][\A r \in Runs :
             runs'[r].attempts # runs[r].attempts =>
                 /\ runs'[r].attempts = runs[r].attempts + 1
                 /\ runs'[r].pc \in {"reset", "eval"}
                 /\ IF runs[r].attempts = 0
                    THEN runs[r].pc \in {"idle", "start_page"}
                    ELSE /\ runs[r].pc = "sleep"
                         /\ Failed(r) = runs[r].attempts
                         /\ runs[r].sleeps = runs[r].attempts
                         /\ RunCfg(r).screenshot_on_failure =>
                               runs[r].shotCalls = runs[r].attempts
                         /\ RunCfg(r).capture_logs =>
                               runs[r].logCalls = runs[r].attempts]_vars

\* the third attempt has started after two failures that were captured
C33_Witness ==
    \E r \in Runs :
        /\ Called(r)
        /\ runs[r].pc = "reset"
        /\ runs[r].attempts = 3
        /\ Failed(r) = 2
        /\ runs[r].shotCalls = 2
        /\ runs[r].logCalls = 2
        /\ runs[r].sleeps = 2

\* C34: the captures are gated by the flags of the config.  With
\* screenshot_on_failure set _capture_screenshot has been called once for
\* every failed attempt, and without it never, and the screenshot path of
\* the result stays empty; with capture_logs set _capture_logs has been
\* called once for every failed attempt whose screenshot step is over (in a
\* run that was not cancelled in between), and without it never, and the
\* console logs of the result stay empty.
C34_CaptureIsGatedByFlags ==
    \A r \in Runs :
        Called(r) =>
            /\ IF RunCfg(r).screenshot_on_failure
               THEN runs[r].shotCalls = Failed(r)
               ELSE /\ runs[r].shotCalls = 0
                    /\ runs[r].pc # "shot"
                    /\ runs[r].shotAttempt = 0
                    /\ runs[r].result.screenshot_path = None
            /\ IF RunCfg(r).capture_logs
               THEN ~runs[r].cancelled =>
                       runs[r].logCalls = IF runs[r].pc = "shot"
                                          THEN Failed(r) - 1 ELSE Failed(r)
               ELSE /\ runs[r].logCalls = 0
                    /\ runs[r].pc # "logs"
                    /\ runs[r].logsAttempt = 0
                    /\ runs[r].result.console_logs = None

\* three failed attempts of a run that asks for logs and not for screenshots
C34_Witness ==
    \E r \in Runs :
        /\ Called(r)
        /\ ~RunCfg(r).screenshot_on_failure
        /\ RunCfg(r).capture_logs
        /\ runs[r].exit = "exhausted"
        /\ Failed(r) = 3
        /\ runs[r].shotCalls = 0
        /\ runs[r].logCalls = 3
        /\ runs[r].result.screenshot_path = None
        /\ runs[r].result.console_logs # None

\* C35: the finally block of the manager's execute_test never raises: a
\* call of the manager ends with the result of its engine or with the error
\* that start() raised, and never with a KeyError for an entry that another
\* coroutine removed from the dict while the call awaited stop().
C35_TeardownNeverRaises ==
    \A r \in Runs :
        (runs[r].pc = "done" /\ runs[r].mode = "manager") =>
            /\ runs[r].outcome # "KeyError"
            /\ Returned(r) => runs[r].outcome = "returned"

\* C36: a call of cleanup() made while runs are in flight ends by returning,
\* with an empty dict, whatever the runs insert into the dict or delete from
\* it while cleanup() awaits a stop().
C36_CleanupSurvivesConcurrentRuns ==
    [][(cleaner.pc # "done" /\ cleaner'.pc = "done") =>
          /\ cleaner'.outcome = "returned"
          /\ Used(engines') = 0]_vars

\* the engines that calls of the manager have constructed
ManagerSessions ==
    {runs[r].engine : r \in {s \in Runs : Called(s) /\ runs[s].mode \in Managed}}

\* an engine holds a handle that was opened and not closed
Open(s) == s.page \/ s.context \/ s.browser \/ s.playwright

\* C37: whenever no call of the manager and no call of cleanup() is in
\* progress, the dict is empty and no engine that the manager constructed
\* holds a page, a context, a browser or a driver.
C37_NoLeakWhenQuiescent ==
    (/\ \A r \in Runs : runs[r].pc \in {"idle", "done"}
     /\ cleaner.pc \in {"idle", "done"}) =>
        /\ Used(engines) = 0
        /\ \A e \in ManagerSessions : ~Open(sessions[e])

\* C38: when start() has failed at the start of the driver, the launch of
\* the browser, the creation of the context or the creation of the page,
\* stop() has been called on the engine before the error reaches the
\* caller, and the engine then holds no page, context, browser or driver.
C38_FailedStartLeavesNoHandle ==
    \A r \in Runs :
        (runs[r].pc = "done" /\ runs[r].startFailed /\ ~runs[r].cancelled) =>
            /\ sessions[runs[r].engine].stopCalls >= 1
            /\ ~Open(sessions[runs[r].engine])

\* C39: a reset that raises before attempt k > 1 is the failure of attempt
\* k: in that step its message becomes the error message of the result, the
\* script is not evaluated and no further attempt is started, the screenshot
\* is called if screenshot_on_failure is set and otherwise the log capture
\* if capture_logs is set, and with neither the run sleeps if an attempt
\* remains and else leaves the loop as exhausted; no exception is in flight.
\* The attempt counts: a run never makes more than retry_count attempts,
\* every attempt has evaluated the script unless its reset raised, and a
\* run whose reset raised and that was not cancelled ends by returning.
C39_ResetFailureIsAnAttemptFailure ==
    /\ [](\A r \in Runs :
             (Called(r) /\ runs[r].resetFails >= 1) =>
                 /\ runs[r].attempts <= RetryCount(r)
                 /\ runs[r].evalCalls + runs[r].resetFails <= runs[r].attempts
                 /\ (runs[r].pc = "done" /\ ~runs[r].cancelled) =>
                       /\ runs[r].outcome = "returned"
                       /\ Returned(r)
                       /\ runs[r].evalCalls + runs[r].resetFails
                             = runs[r].attempts)
    /\ [][\A r \in Runs :
             runs'[r].resetFails # runs[r].resetFails =>
                 /\ runs[r].pc = "reset"
                 /\ runs[r].attempts >= 2
                 /\ runs'[r].resetFails = runs[r].resetFails + 1
                 /\ runs'[r].result.error_message = ResetError
                 /\ runs'[r].excs = Append(runs[r].excs, ResetError)
                 /\ ~runs'[r].result.success
                 /\ runs'[r].evalCalls = runs[r].evalCalls
                 /\ runs'[r].attempts = runs[r].attempts
                 /\ runs'[r].pending \in {"none", "returned"}
                 /\ runs'[r].shotCalls = runs[r].shotCalls +
                       (IF RunCfg(r).screenshot_on_failure THEN 1 ELSE 0)
                 /\ IF RunCfg(r).screenshot_on_failure
                    THEN runs'[r].pc = "shot" /\ runs'[r].logCalls = runs[r].logCalls
                    ELSE IF RunCfg(r).capture_logs
                    THEN runs'[r].pc = "logs"
                            /\ runs'[r].logCalls = runs[r].logCalls + 1
                    ELSE /\ runs'[r].logCalls = runs[r].logCalls
                         /\ IF runs[r].attempts < RetryCount(r)
                            THEN runs'[r].pc = "sleep"
                            ELSE runs'[r].exit = "exhausted"]_vars

\* the reset before the second attempt raised, the failure was captured and
\* slept on, and the third attempt succeeded
C39_Witness ==
    \E r \in Runs :
        /\ Called(r)
        /\ RetryCount(r) = 3
        /\ runs[r].pc = "done"
        /\ runs[r].outcome = "returned"
        /\ runs[r].excs = <<"Error: boom", ResetError>>
        /\ runs[r].resetFails = 1
        /\ runs[r].evalCalls = 2
        /\ runs[r].shotCalls = 2
        /\ runs[r].logCalls = 2
        /\ runs[r].succAt = 3

====
